---- MODULE Spec2Model ----
(***************************************************************************)
(* Model of CloudHarvestAgent's JobQueue (agent/queue.py): the in-memory   *)
(* table of task chains, start()/stop(), the intake loop                   *)
(* (_thread_check_queue), the completion callback, the queue poll protocol *)
(* get_oldest_task_from_queue run against a shared Redis silo, the         *)
(* reporting loop (_thread_reporting) and detailed_status().               *)
(***************************************************************************)
EXTENDS Integers, Sequences, FiniteSets, TLC

(* ------------------------------ bounds --------------------------------- *)
\* longest list initially stored under one redis name (two agents polling)
MaxList == 2
\* longest list initially stored under one redis name (the JobQueue's life cycle)
MaxPending == 1
\* largest configured max_chains
MaxChains == 2
\* number of task-chain objects the chain factory builds in one run
MaxObj == 3

(* ---------------------------- vocabulary ------------------------------- *)
None == "None"

\* class JobQueueStatusCodes
JobQueueStatusCodes ==
  {"complete", "error", "initialized", "running", "stopped", "stopping", "terminating"}

\* CloudHarvestCoreTasks.tasks.TaskStatusCodes, the vocabulary of a chain's status
TaskStatusCodes ==
  {"complete", "error", "idle", "initialized", "running", "skipped", "terminating"}

\* priority tiers used in the remote queue
Priorities == {1, 5}

\* the agents that poll the same harvest-task-queue silo: this JobQueue's
\* intake loop ("self") and another agent's ("other")
Agents == {"self", "other"}

\* redis names of the harvest-task-queue silo, "{priority}:{task_chain_id}",
\* written as the sequence of their ':'-separated fields
RedisNames == {<<1, "a">>, <<1, "b">>, <<5, "a", "x">>}

\* chain identifiers
Uuids == {"a", "b"}

\* template names: the registry holds "noop" only
TemplateNames == {"noop", "missing"}
Registry == {"noop"}

\* element j of the list first stored under a redis name: every element is a
\* distinct, non-empty serialized payload
Entry(name, j) == [name |-> name, n |-> j]

\* the None that lpop returns for a missing key
NoTask == [name |-> <<>>, n |-> 0]

Entries == {Entry(name, j) : name \in RedisNames, j \in 1..MaxList}

\* the orders accepted_chain_priorities can take
PriorityOrders ==
  {<<p>> : p \in Priorities}
    \cup {o \in Priorities \X Priorities : o[1] # o[2]}

VARIABLES
  silo,                       \* harvest-task-queue: redis name -> list (<<>>: no such key)
  accepted_chain_priorities,  \* per agent, its ordered list of accepted tiers
  max_chains,                 \* JobQueue.max_chains
  status,                     \* JobQueue.status
  stop_time,                  \* JobQueue.stop_time
  table,                      \* the JobQueue dict: uuid -> task chain
  threads,                    \* _reporting_thread, _check_queue_thread
  next_obj,                   \* identity of the next chain object built
  poll,                       \* per agent, the frame of get_oldest_task_from_queue
  received,                   \* per agent, the entries its polls have returned
  intake,                     \* position of _thread_check_queue
  stop_call,                  \* the last stop() call: arguments and outcome
  admit_call,                 \* the last get_task_chain_from_template call
  silos,                      \* JobQueue._silos: the names of the configured silos
  reporting_interval_seconds, \* JobQueue.reporting_interval_seconds
  reporting,                  \* position of _thread_reporting
  reports,                    \* harvest-tasks silo: key -> its time-to-live
  status_call                 \* the last detailed_status() result

\* the state of the reporting loop, of the status store and of detailed_status
report_vars == <<silos, reporting_interval_seconds, reporting, reports, status_call>>

vars == <<silo, accepted_chain_priorities, max_chains, status, stop_time, table,
          threads, next_obj, poll, received, intake, stop_call, admit_call,
          silos, reporting_interval_seconds, reporting, reports, status_call>>

(* ----------------------------- the silo -------------------------------- *)
\* f'{priority}:*' matches a name whose first field is the priority
Match(priority, name) == name[1] = priority

\* silo.scan_iter(match=f'{priority}:*'): the existing keys of the tier
\* (redis keeps no key for an empty list)
ScanIter(s, priority) == {name \in RedisNames : Match(priority, name) /\ s[name] # <<>>}

\* mutation of LPop: reads the head and leaves it in the list
LPopKeepsHead(s, name) ==
  [silo |-> s, task |-> IF s[name] = <<>> THEN NoTask ELSE Head(s[name])]

\* silo.lpop(redis_name): atomically removes and returns the head, None if no such key
LPop(s, name) ==
  IF s[name] = <<>>
    THEN [silo |-> s, task |-> NoTask]
    ELSE [silo |-> [s EXCEPT ![name] = Tail(@)], task |-> Head(s[name])]

\* redis_name.split(':')[1]
TaskId(name) == name[2]

\* "if task:" a popped payload is truthy, None is not
Truthy(task) == task # NoTask

\* mutation of PriorityAt: walks accepted_chain_priorities from its end
PriorityAtReversed(acc, i) == acc[Len(acc) + 1 - i]

\* "for priority in accepted_chain_priorities": the i-th tier tried
PriorityAt(acc, i) == acc[i]

\* the distinct elements of a list
Elems(list) == {list[k] : k \in 1..Len(list)}

\* no call of get_oldest_task_from_queue in progress
IdleFrame == [pc |-> "idle", i |-> 0, names |-> {}, ret |-> <<>>, removed |-> {}]

\* the frame of a fresh call, positioned at the outer for loop
PollFrame == [pc |-> "for_priority", i |-> 1, names |-> {}, ret |-> <<>>, removed |-> {}]

(* ------------------- get_oldest_task_from_queue ------------------------ *)
\* outer loop: the next accepted tier is scanned; past the last tier the
\* function falls off its end and returns None (ret = <<>>)
PollForPriority(p) ==
  /\ poll[p].pc = "for_priority"
  /\ LET acc == accepted_chain_priorities[p]
         i == poll[p].i
     IN IF i > Len(acc)
          THEN poll' = [poll EXCEPT ![p].pc = "return", ![p].ret = <<>>]
          ELSE poll' = [poll EXCEPT ![p].pc = "for_name",
                                    ![p].names = ScanIter(silo, PriorityAt(acc, i))]
  /\ UNCHANGED <<silo, accepted_chain_priorities, max_chains, status, stop_time, table,
                 threads, next_obj, received, intake, stop_call, admit_call>>
  /\ UNCHANGED report_vars

\* inner loop: lpop the next scanned name; the first truthy pop is returned
\* as (task_id, task), a name whose list is gone is skipped
PollForName(p) ==
  /\ poll[p].pc = "for_name"
  /\ IF poll[p].names = {}
       THEN /\ poll' = [poll EXCEPT ![p].pc = "for_priority", ![p].i = @ + 1]
            /\ UNCHANGED <<silo, received>>
       ELSE \E name \in poll[p].names :
              LET r == LPop(silo, name)
                  gone == Elems(silo[name]) \ Elems(r.silo[name])
              IN /\ silo' = r.silo
                 /\ IF Truthy(r.task)
                      THEN /\ poll' = [poll EXCEPT ![p].pc = "return",
                                                   ![p].ret = <<TaskId(name), r.task>>,
                                                   ![p].removed = @ \cup gone]
                           /\ received' = [received EXCEPT ![p] = @ \cup {r.task}]
                      ELSE /\ poll' = [poll EXCEPT ![p].names = @ \ {name},
                                                   ![p].removed = @ \cup gone]
                           /\ UNCHANGED received
  /\ UNCHANGED <<accepted_chain_priorities, max_chains, status, stop_time, table,
                 threads, next_obj, intake, stop_call, admit_call>>
  /\ UNCHANGED report_vars

\* the other agent's intake loop calls the protocol, and calls it again once
\* the previous call has returned
OtherPollCall ==
  /\ poll["other"].pc \in {"idle", "return"}
  /\ poll' = [poll EXCEPT !["other"] = PollFrame]
  /\ UNCHANGED <<silo, accepted_chain_priorities, max_chains, status, stop_time, table,
                 threads, next_obj, received, intake, stop_call, admit_call>>
  /\ UNCHANGED report_vars

(* --------------------------- the JobQueue ------------------------------ *)
\* the chain statuses stop() waits on
ActiveStatuses == {"initialized", "running"}

\* len(self.keys()) >= self.max_chains
is_queue_full(tbl, max) == Cardinality(DOMAIN tbl) >= max

\* self[key] = chain
DictSet(tbl, key, chain) ==
  [u \in DOMAIN tbl \cup {key} |-> IF u = key THEN chain ELSE tbl[u]]

\* self.pop(key, None)
DictPop(tbl, key) == [u \in DOMAIN tbl \ {key} |-> tbl[u]]

\* task_chain_from_dict: a new chain object, not started
NewChain(obj) == [obj |-> obj, status |-> "initialized", terminate_requested |-> FALSE]

\* get_task_chain_from_template: Registry.find(...)[0] raises IndexError when
\* no template has the name; otherwise the chain is built, takes the uuid
\* override when one is given (else the uuid the factory generated) and is
\* stored under it, whatever the table holds under that key
AdmitResult(tbl, obj, task_template_name, uuid, generated) ==
  IF task_template_name \notin Registry
    THEN [outcome |-> "IndexError", table |-> tbl, key |-> None]
    ELSE LET key == IF uuid # None THEN uuid ELSE generated
         IN [outcome |-> "returned", table |-> DictSet(tbl, key, NewChain(obj)), key |-> key]

\* a caller invokes get_task_chain_from_template(task_template_name, {}, uuid=uuid)
GetTaskChainFromTemplate(task_template_name, uuid) ==
  /\ next_obj <= MaxObj
  /\ \E generated \in Uuids :
       /\ uuid = None => generated \notin DOMAIN table
       /\ LET r == AdmitResult(table, next_obj, task_template_name, uuid, generated)
          IN /\ table' = r.table
             /\ admit_call' = [outcome |-> r.outcome]
             /\ next_obj' = IF r.outcome = "returned" THEN next_obj + 1 ELSE next_obj
  /\ UNCHANGED <<silo, accepted_chain_priorities, max_chains, status, stop_time,
                 threads, poll, received, intake, stop_call>>
  /\ UNCHANGED report_vars

\* _on_chain_complete(task_chain_id): called for a chain that has finished,
\* or again for one already removed
OnChainComplete(task_chain_id) ==
  /\ task_chain_id \in DOMAIN table => table[task_chain_id].status \notin ActiveStatuses
  /\ table' = DictPop(table, task_chain_id)
  /\ UNCHANGED <<silo, accepted_chain_priorities, max_chains, status, stop_time,
                 threads, next_obj, poll, received, intake, stop_call, admit_call>>
  /\ UNCHANGED report_vars

\* the chain's own execution: it is started by its owner and later ends
ChainRuns(u) ==
  /\ u \in DOMAIN table
  /\ table[u].status = "initialized"
  /\ table' = [table EXCEPT ![u].status = "running"]
  /\ UNCHANGED <<silo, accepted_chain_priorities, max_chains, status, stop_time,
                 threads, next_obj, poll, received, intake, stop_call, admit_call>>
  /\ UNCHANGED report_vars

ChainEnds(u) ==
  /\ u \in DOMAIN table
  /\ table[u].status = "running"
  /\ \E s \in {"complete", "error"} : table' = [table EXCEPT ![u].status = s]
  /\ UNCHANGED <<silo, accepted_chain_priorities, max_chains, status, stop_time,
                 threads, next_obj, poll, received, intake, stop_call, admit_call>>
  /\ UNCHANGED report_vars

\* start(): status running, stop_time reset, the two Thread objects are
\* constructed (Thread.start() is not called), result is the status
Start ==
  /\ status' = "running"
  /\ stop_time' = None
  /\ threads' = [reporting |-> "created", check_queue |-> "created"]
  /\ UNCHANGED <<silo, accepted_chain_priorities, max_chains, table, next_obj, poll,
                 received, intake, stop_call, admit_call>>
  /\ UNCHANGED report_vars

\* the timeouts stop() is called with, in seconds
Timeouts == {0, 1}

\* stop(finish_running_jobs, timeout): status becomes stopping, then
\* self._thread_check_queue.join() is evaluated on the bound method, which has
\* no attribute join: AttributeError leaves the call there, before the
\* terminate loop, the wait loop and the stop_time assignment
Stop(finish_running_jobs, timeout) ==
  /\ status' = "stopping"
  /\ stop_call' = [outcome |-> "AttributeError", result |-> None]
  /\ UNCHANGED <<silo, accepted_chain_priorities, max_chains, stop_time, table, threads,
                 next_obj, poll, received, intake, admit_call>>
  /\ UNCHANGED report_vars

(* ------------------------ _thread_check_queue -------------------------- *)
\* json.loads of a task id cut from a redis name: not a JSON document
LoadsTaskId(task_id) == [error |-> "JSONDecodeError"]

\* json.loads of a serialized payload: its dict
LoadsPayload(task) ==
  [error |-> None, task_template_name |-> "noop", uuid |-> TaskId(task.name)]

\* loads(oldest_task[0]): element 0 of (task_id, task) is the task id
LoadedTemplate(oldest_task) == LoadsTaskId(oldest_task[1])

\* the Thread object built by start() is run by whoever holds it
RunCheckQueueThread ==
  /\ threads.check_queue = "created"
  /\ intake.pc \in {"idle", "exited", "raised"}
  /\ intake' = [pc |-> "while", seen |-> None]
  /\ UNCHANGED <<silo, accepted_chain_priorities, max_chains, status, stop_time, table,
                 threads, next_obj, poll, received, stop_call, admit_call>>
  /\ UNCHANGED report_vars

\* while not self.is_queue_full and self.status != terminating: enter the
\* body and call get_oldest_task_from_queue, or leave the loop for good
ThreadCheckQueueWhile ==
  /\ intake.pc = "while"
  /\ IF ~is_queue_full(table, max_chains) /\ status # "terminating"
       THEN /\ intake' = [pc |-> "poll", seen |-> status]
            /\ poll' = [poll EXCEPT !["self"] = PollFrame]
       ELSE /\ intake' = [pc |-> "exited", seen |-> status]
            /\ UNCHANGED poll
  /\ UNCHANGED <<silo, accepted_chain_priorities, max_chains, status, stop_time, table,
                 threads, next_obj, received, stop_call, admit_call>>
  /\ UNCHANGED report_vars

\* if oldest_task: the payload is loaded and the chain admitted; the load
\* raises, which ends the thread
ThreadCheckQueueAdmit ==
  /\ intake.pc = "poll"
  /\ poll["self"].pc = "return"
  /\ poll["self"].ret # <<>>
  /\ LET loaded == LoadedTemplate(poll["self"].ret)
     IN IF loaded.error # None
          THEN /\ intake' = [intake EXCEPT !.pc = "raised"]
               /\ UNCHANGED <<table, next_obj>>
          ELSE LET r == AdmitResult(table, next_obj, loaded.task_template_name,
                                    loaded.uuid, loaded.uuid)
               IN /\ next_obj <= MaxObj
                  /\ table' = r.table
                  /\ next_obj' = IF r.outcome = "returned" THEN next_obj + 1 ELSE next_obj
                  /\ intake' = [intake EXCEPT !.pc =
                                  IF r.outcome = "returned" THEN "sleep" ELSE "raised"]
  /\ poll' = [poll EXCEPT !["self"] = IdleFrame]
  /\ UNCHANGED <<silo, accepted_chain_priorities, max_chains, status, stop_time,
                 threads, received, stop_call, admit_call>>
  /\ UNCHANGED report_vars

\* get_silo('harvest-task-queue').connect() or a call on the silo raises (the
\* store cannot be reached): nothing in the loop catches it, the thread ends
ThreadCheckQueueStoreError ==
  /\ intake.pc = "poll"
  /\ poll["self"].pc \in {"for_priority", "for_name"}
  /\ intake' = [intake EXCEPT !.pc = "raised"]
  /\ poll' = [poll EXCEPT !["self"] = IdleFrame]
  /\ UNCHANGED <<silo, accepted_chain_priorities, max_chains, status, stop_time, table,
                 threads, next_obj, received, stop_call, admit_call>>
  /\ UNCHANGED report_vars

\* no task was returned: nothing to admit
ThreadCheckQueueNoTask ==
  /\ intake.pc = "poll"
  /\ poll["self"].pc = "return"
  /\ poll["self"].ret = <<>>
  /\ intake' = [intake EXCEPT !.pc = "sleep"]
  /\ poll' = [poll EXCEPT !["self"] = IdleFrame]
  /\ UNCHANGED <<silo, accepted_chain_priorities, max_chains, status, stop_time, table,
                 threads, next_obj, received, stop_call, admit_call>>
  /\ UNCHANGED report_vars

\* sleep(self.queue_check_interval_seconds), then the loop test again
ThreadCheckQueueSleep ==
  /\ intake.pc = "sleep"
  /\ intake' = [intake EXCEPT !.pc = "while"]
  /\ UNCHANGED <<silo, accepted_chain_priorities, max_chains, status, stop_time, table,
                 threads, next_obj, poll, received, stop_call, admit_call>>
  /\ UNCHANGED report_vars

(* -------------------------- _thread_reporting -------------------------- *)
\* the reporting intervals the queue is configured with, in seconds
ReportingIntervals == {1, 5}

\* redis TTL of a key that has no expiration
NoExpiry == -1

\* the reporting thread is not running
IdleReport ==
  [pc |-> "idle", start |-> {}, todo |-> {}, key |-> None, written |-> {}, failed |-> None]

\* the silo configurations are retrieved from the API and stored in _silos
SilosRetrieved ==
  /\ silos = {}
  /\ silos' = {"harvest-tasks"}
  /\ UNCHANGED <<silo, accepted_chain_priorities, max_chains, status, stop_time, table,
                 threads, next_obj, poll, received, intake, stop_call, admit_call,
                 reporting_interval_seconds, reporting, reports, status_call>>

\* the Thread object built by start() is run by whoever holds it
RunReportingThread ==
  /\ threads.reporting = "created"
  /\ reporting.pc \in {"idle", "raised"}
  /\ reporting' = [IdleReport EXCEPT !.pc = "connect"]
  /\ UNCHANGED <<silo, accepted_chain_priorities, max_chains, status, stop_time, table,
                 threads, next_obj, poll, received, intake, stop_call, admit_call,
                 silos, reporting_interval_seconds, reports, status_call>>

\* while True: StrictRedis(**self._silos.get('harvest-tasks')), outside the
\* try: without that configuration ** is applied to None and TypeError ends
\* the thread
ThreadReportingConnect ==
  /\ reporting.pc = "connect"
  /\ reporting' = [reporting EXCEPT !.pc =
                     IF "harvest-tasks" \in silos THEN "items" ELSE "raised"]
  /\ UNCHANGED <<silo, accepted_chain_priorities, max_chains, status, stop_time, table,
                 threads, next_obj, poll, received, intake, stop_call, admit_call,
                 silos, reporting_interval_seconds, reports, status_call>>

\* for ... in list(self.items()): the loop walks a copy of the table taken
\* here, whatever the table becomes; with no chain the try block is over at once
ThreadReportingItems ==
  /\ reporting.pc = "items"
  /\ reporting' = [pc |-> IF DOMAIN table = {} THEN "sleep" ELSE "set",
                   start |-> DOMAIN table, todo |-> DOMAIN table, key |-> None,
                   written |-> {}, failed |-> None]
  /\ UNCHANGED <<silo, accepted_chain_priorities, max_chains, status, stop_time, table,
                 threads, next_obj, poll, received, intake, stop_call, admit_call,
                 silos, reporting_interval_seconds, reports, status_call>>

\* reporting_silo.set(task_chain_id, dumps(...)) for the next chain of the
\* list: the key is written without expiration, or the call raises and the
\* except clause ends the cycle
ThreadReportingSet ==
  /\ reporting.pc = "set"
  /\ \E u \in reporting.todo :
       \/ /\ reports' = DictSet(reports, u, NoExpiry)
          /\ reporting' = [reporting EXCEPT !.pc = "expire", !.key = u]
       \/ /\ reporting' = [reporting EXCEPT !.pc = "sleep", !.failed = u]
          /\ UNCHANGED reports
  /\ UNCHANGED <<silo, accepted_chain_priorities, max_chains, status, stop_time, table,
                 threads, next_obj, poll, received, intake, stop_call, admit_call,
                 silos, reporting_interval_seconds, status_call>>

\* reporting_silo.expire(task_chain_id, reporting_interval_seconds * 10), then
\* the break on a complete or terminating queue; a raising call ends the cycle
ThreadReportingExpire ==
  /\ reporting.pc = "expire"
  /\ \/ /\ reports' = IF reporting.key \in DOMAIN reports
                        THEN DictSet(reports, reporting.key, reporting_interval_seconds * 10)
                        ELSE reports
        /\ LET left == reporting.todo \ {reporting.key}
           IN reporting' = [reporting EXCEPT
                              !.todo = left,
                              !.written = @ \cup {reporting.key},
                              !.pc = IF status \in {"complete", "terminating"} \/ left = {}
                                       THEN "sleep" ELSE "set"]
     \/ /\ reporting' = [reporting EXCEPT !.pc = "sleep", !.failed = reporting.key]
        /\ UNCHANGED reports
  /\ UNCHANGED <<silo, accepted_chain_priorities, max_chains, status, stop_time, table,
                 threads, next_obj, poll, received, intake, stop_call, admit_call,
                 silos, reporting_interval_seconds, status_call>>

\* finally: sleep(self.reporting_interval_seconds), then while True again
ThreadReportingSleep ==
  /\ reporting.pc = "sleep"
  /\ reporting' = [reporting EXCEPT !.pc = "connect"]
  /\ UNCHANGED <<silo, accepted_chain_priorities, max_chains, status, stop_time, table,
                 threads, next_obj, poll, received, intake, stop_call, admit_call,
                 silos, reporting_interval_seconds, reports, status_call>>

\* the status store drops a key whose time-to-live has run out
StoreExpires(u) ==
  /\ u \in DOMAIN reports
  /\ reports[u] # NoExpiry
  /\ reports' = DictPop(reports, u)
  /\ UNCHANGED <<silo, accepted_chain_priorities, max_chains, status, stop_time, table,
                 threads, next_obj, poll, received, intake, stop_call, admit_call,
                 silos, reporting_interval_seconds, reporting, status_call>>

(* --------------------------- detailed_status --------------------------- *)
\* for status_code in TaskStatusCodes: the members in the order they are walked
StatusCodeOrder ==
  <<"complete", "error", "idle", "initialized", "running", "skipped", "terminating">>

\* no call of detailed_status() is under way
IdleStatusCall ==
  [pc |-> "idle", codes |-> <<>>, seen |-> {}, size |-> 0, count |-> 0,
   chain_status |-> <<>>, total_chains_in_queue |-> 0]

\* detailed_status() is called: the comprehension starts with the first
\* status code, and self.values() starts on a table of this size
DetailedStatusCall ==
  /\ status_call.pc \in {"idle", "returned", "raised"}
  /\ status_call' = [IdleStatusCall EXCEPT !.pc = "counting", !.codes = StatusCodeOrder,
                                           !.size = Cardinality(DOMAIN table)]
  /\ UNCHANGED <<silo, accepted_chain_priorities, max_chains, status, stop_time, table,
                 threads, next_obj, poll, received, intake, stop_call, admit_call,
                 silos, reporting_interval_seconds, reporting, reports>>

\* sum(1 for task in self.values() if task.status == status_code): one step of
\* the generator. The dict iterator raises RuntimeError when the table has
\* changed size since the pass began; otherwise it yields the next chain, or
\* is exhausted and the count of this status code is stored
DetailedStatusCount ==
  /\ status_call.pc = "counting"
  /\ LET code == Head(status_call.codes)
         rest == DOMAIN table \ status_call.seen
     IN IF Cardinality(DOMAIN table) # status_call.size
          THEN status_call' = [status_call EXCEPT !.pc = "raised"]
          ELSE IF rest # {}
            THEN \E u \in rest :
                   status_call' = [status_call EXCEPT
                                     !.seen = @ \cup {u},
                                     !.count = IF table[u].status = code THEN @ + 1 ELSE @]
            ELSE status_call' = [status_call EXCEPT
                                   !.chain_status = DictSet(@, code, status_call.count),
                                   !.codes = Tail(@),
                                   !.seen = {},
                                   !.count = 0,
                                   !.size = Cardinality(DOMAIN table),
                                   !.pc = IF Tail(status_call.codes) = <<>>
                                            THEN "len" ELSE "counting"]
  /\ UNCHANGED <<silo, accepted_chain_priorities, max_chains, status, stop_time, table,
                 threads, next_obj, poll, received, intake, stop_call, admit_call,
                 silos, reporting_interval_seconds, reporting, reports>>

\* 'total_chains_in_queue': len(self), the last entry of the result, and
\* return result
DetailedStatusReturn ==
  /\ status_call.pc = "len"
  /\ status_call' = [status_call EXCEPT !.pc = "returned",
                                        !.total_chains_in_queue = Cardinality(DOMAIN table)]
  /\ UNCHANGED <<silo, accepted_chain_priorities, max_chains, status, stop_time, table,
                 threads, next_obj, poll, received, intake, stop_call, admit_call,
                 silos, reporting_interval_seconds, reporting, reports>>

(* ------------------------------- Init ---------------------------------- *)
\* the remote queue in any content with lists of at most max elements
SiloContents(max) ==
  {[name \in RedisNames |-> [j \in 1..len[name] |-> Entry(name, j)]] :
     len \in [RedisNames -> 0..max]}

\* the JobQueue after __init__
InitQueue ==
  /\ max_chains \in 1..MaxChains
  /\ status = "initialized"
  /\ stop_time = None
  /\ table = <<>>
  /\ threads = [reporting |-> None, check_queue |-> None]
  /\ next_obj = 1
  /\ poll = [p \in Agents |-> IdleFrame]
  /\ received = [p \in Agents |-> {}]
  /\ intake = [pc |-> "idle", seen |-> None]
  /\ stop_call = [outcome |-> "idle", result |-> None]
  /\ admit_call = [outcome |-> "idle"]
  /\ silos = {}
  /\ reporting = IdleReport
  /\ reports = <<>>
  /\ status_call = IdleStatusCall

\* one agent: the JobQueue, its callers and its chains
Init ==
  /\ silo \in SiloContents(MaxPending)
  /\ accepted_chain_priorities \in [Agents -> PriorityOrders]
  /\ accepted_chain_priorities["other"] = <<1>>
  /\ reporting_interval_seconds = 5
  /\ InitQueue

Next ==
  \/ PollForPriority("self")
  \/ PollForName("self")
  \/ Start
  \/ \E f \in BOOLEAN, t \in Timeouts : Stop(f, t)
  \/ \E n \in TemplateNames, u \in Uuids \cup {None} : GetTaskChainFromTemplate(n, u)
  \/ \E u \in Uuids : OnChainComplete(u)
  \/ \E u \in Uuids : ChainRuns(u)
  \/ \E u \in Uuids : ChainEnds(u)
  \/ RunCheckQueueThread
  \/ ThreadCheckQueueWhile
  \/ ThreadCheckQueueAdmit
  \/ ThreadCheckQueueStoreError
  \/ ThreadCheckQueueNoTask
  \/ ThreadCheckQueueSleep

Spec == Init /\ [][Next]_vars

\* two agents polling the same silo: this JobQueue's intake loop and another agent
InitPoll ==
  /\ silo \in SiloContents(MaxList)
  /\ accepted_chain_priorities \in [Agents -> PriorityOrders]
  /\ reporting_interval_seconds = 5
  /\ InitQueue
  /\ max_chains = 1

NextPoll ==
  \/ \E p \in Agents : PollForPriority(p)
  \/ \E p \in Agents : PollForName(p)
  \/ OtherPollCall
  \/ Start
  \/ RunCheckQueueThread
  \/ ThreadCheckQueueWhile
  \/ ThreadCheckQueueAdmit
  \/ ThreadCheckQueueNoTask
  \/ ThreadCheckQueueSleep

SpecPoll == InitPoll /\ [][NextPoll]_vars

\* the reporting loop beside the callers that admit and remove chains
InitReport ==
  /\ silo \in SiloContents(0)
  /\ accepted_chain_priorities = [p \in Agents |-> <<1>>]
  /\ reporting_interval_seconds \in ReportingIntervals
  /\ InitQueue

NextReport ==
  \/ Start
  \/ \E f \in BOOLEAN, t \in Timeouts : Stop(f, t)
  \/ \E n \in TemplateNames, u \in Uuids \cup {None} : GetTaskChainFromTemplate(n, u)
  \/ \E u \in Uuids : OnChainComplete(u)
  \/ SilosRetrieved
  \/ RunReportingThread
  \/ ThreadReportingConnect
  \/ ThreadReportingItems
  \/ ThreadReportingSet
  \/ ThreadReportingExpire
  \/ ThreadReportingSleep
  \/ \E u \in Uuids : StoreExpires(u)

SpecReport == InitReport /\ [][NextReport]_vars

\* detailed_status beside the chains and the callers that admit and remove them
InitStatus ==
  /\ silo \in SiloContents(0)
  /\ accepted_chain_priorities = [p \in Agents |-> <<1>>]
  /\ reporting_interval_seconds = 5
  /\ InitQueue

NextStatus ==
  \/ Start
  \/ \E n \in TemplateNames, u \in Uuids \cup {None} : GetTaskChainFromTemplate(n, u)
  \/ \E u \in Uuids : OnChainComplete(u)
  \/ \E u \in Uuids : ChainRuns(u)
  \/ \E u \in Uuids : ChainEnds(u)
  \/ DetailedStatusCall
  \/ DetailedStatusCount
  \/ DetailedStatusReturn

SpecStatus == InitStatus /\ [][NextStatus]_vars

(* ------------------------------ claims --------------------------------- *)
\* some list of the tier holds a pending entry
TierPending(s, priority) ==
  \E name \in RedisNames : Match(priority, name) /\ s[name] # <<>>

\* position of a tier in an accepted order
IndexOf(acc, priority) == CHOOSE k \in 1..Len(acc) : acc[k] = priority

\* C2: get_task_chain_from_template called with a uuid that is already a key
\* of the table is rejected and leaves the table as it was, the stored chain
\* still mapped to that uuid.
C2_AtMostOnceAdmission ==
  [][\A n \in TemplateNames, u \in Uuids :
       (u \in DOMAIN table /\ GetTaskChainFromTemplate(n, u)) => table' = table]_vars

\* C3: a call of get_oldest_task_from_queue that returns an entry returns one
\* of an accepted tier with no pending entry left in any tier earlier in the
\* accepted order, and has removed that entry and nothing else; a call that
\* returns None has removed nothing and leaves no accepted tier pending.
C3_PriorityDominance ==
  \A p \in Agents :
    poll[p].pc = "return" =>
      LET acc == accepted_chain_priorities[p]
      IN IF poll[p].ret = <<>>
           THEN /\ poll[p].removed = {}
                /\ \A k \in 1..Len(acc) : ~TierPending(silo, acc[k])
           ELSE LET task == poll[p].ret[2]
                    priority == task.name[1]
                IN /\ \E k \in 1..Len(acc) : acc[k] = priority
                   /\ \A k \in 1..Len(acc) :
                        k < IndexOf(acc, priority) => ~TierPending(silo, acc[k])
                   /\ poll[p].ret[1] = TaskId(task.name)
                   /\ poll[p].removed = {task}

\* a call returned an entry of its first accepted tier while its second
\* accepted tier held pending entries
C3_Witness ==
  \E p \in Agents :
    /\ poll[p].pc = "return"
    /\ poll[p].ret # <<>>
    /\ Len(accepted_chain_priorities[p]) = 2
    /\ poll[p].ret[2].name[1] = accepted_chain_priorities[p][1]
    /\ TierPending(silo, accepted_chain_priorities[p][2])

\* C4: under every interleaving of the two agents' scans and pops no queue
\* entry is returned to both agents, and a call in progress has removed at
\* most one entry, the one it returns.
C4_ExclusiveDelivery ==
  /\ received["self"] \cap received["other"] = {}
  /\ \A p \in Agents :
       /\ Cardinality(poll[p].removed) <= 1
       /\ \A e \in poll[p].removed : poll[p].pc = "return" /\ poll[p].ret[2] = e

\* both agents scanned the same list while it held entries and each came
\* back with an entry of it
C4_Witness ==
  /\ poll["self"].pc = "return"
  /\ poll["other"].pc = "return"
  /\ poll["self"].ret # <<>>
  /\ poll["other"].ret # <<>>
  /\ poll["self"].ret[2].name = poll["other"].ret[2].name

\* the statuses stop() moves the queue to
StopStatuses == {"stopping", "terminating", "stopped"}

C6_DrainVsForce ==
  [][\A t \in Timeouts :
       /\ Stop(FALSE, t) => \A u \in DOMAIN table : table'[u].terminate_requested
       /\ Stop(TRUE, t) => table' = table]_vars

\* C7: stop() returns a boolean result, and returns true when, with a
\* positive timeout, no chain of the table is initialized or running
\* (the empty table included).
C7_StopOutcome ==
  [][\A f \in BOOLEAN, t \in Timeouts :
       Stop(f, t) =>
         /\ stop_call'.result \in {"True", "False"}
         /\ (t > 0 /\ \A u \in DOMAIN table : table[u].status \notin ActiveStatuses)
              => stop_call'.result = "True"]_vars

\* C8: every call of stop() reaches its final step: it records stop_time and
\* returns to its caller instead of raising.
C8_StopCompletes ==
  [][\A f \in BOOLEAN, t \in Timeouts :
       Stop(f, t) => stop_call'.outcome = "returned" /\ stop_time' # None]_vars

\* C9: stop(finish_running_jobs=False) moves the status to terminating,
\* stop(finish_running_jobs=True) moves it to stopping.
C9_StopSelectsMode ==
  [][\A t \in Timeouts :
       /\ Stop(FALSE, t) => status' = "terminating"
       /\ Stop(TRUE, t) => status' = "stopping"]_vars

\* C10: when a call of stop() is over the queue status is stopped.
C10_StoppedAfterStop ==
  [][\A f \in BOOLEAN, t \in Timeouts : Stop(f, t) => status' = "stopped"]_vars

\* C11: while the status is running the intake loop stays alive across a
\* full table: finding the table full it does not end, so that it polls
\* again and admits the pending entry once a completion frees a slot.
C11_DeferredNotDropped ==
  [][(ThreadCheckQueueWhile /\ status = "running") => intake'.pc # "exited"]_vars

\* C12: when start() returns the status is running, stop_time is unset and
\* the intake thread and the reporting thread have been started.
C12_StartActivatesLoops ==
  [][Start => /\ status' = "running"
              /\ stop_time' = None
              /\ threads'.check_queue = "started"
              /\ threads'.reporting = "started"]_vars

\* C18: an entry the intake loop popped is admitted: the loop does not end
\* on it and the table then holds, under the entry's identifier, the chain
\* just built.
C18_IntakeAdmitsDequeued ==
  [][ThreadCheckQueueAdmit =>
       /\ intake'.pc # "raised"
       /\ poll["self"].ret[1] \in DOMAIN table'
       /\ table'[poll["self"].ret[1]].obj = next_obj]_vars

\* C19: an iteration of the intake loop that hits a remote-queue-store error
\* leaves the table unchanged and the loop running, to poll again on its
\* next tick.
C19_IntakeSurvivesErrors ==
  [][ThreadCheckQueueStoreError =>
       /\ table' = table
       /\ intake'.pc \in {"sleep", "while", "poll"}]_vars

\* C20: the status enters stopping or terminating only from running.
C20_LifecycleOrdering ==
  [][(status' \in {"stopping", "terminating"} /\ status' # status)
       => status = "running"]_vars


\* C13 (reporting loop exit): the reporting loop keeps running while the queue
\* status is neither complete nor terminating: a step in which the loop stops
\* is taken only when the status is complete or terminating.
C13_ReportingLoopExit ==
  [][(reporting.pc \notin {"idle", "raised"} /\ reporting'.pc \in {"idle", "raised"})
       => status \in {"complete", "terminating"}]_vars

\* C14 (per-chain fault isolation in reporting): when a reporting cycle in
\* which the write of one chain failed is over, the snapshot of every other
\* chain admitted at the start of that cycle has been written in it.
C14_FaultIsolation ==
  (reporting.pc = "sleep" /\ reporting.failed # None)
    => (reporting.start \ {reporting.failed}) \subseteq reporting.written

\* C15 (expiration): every key the reporting loop has written to the status
\* store carries a time-to-live of exactly 10 x reporting_interval_seconds, at
\* every point of a reporting cycle, so that no key stays without expiration
\* wherever the agent stops or the store fails.
C15_Expiration ==
  \A u \in DOMAIN reports : reports[u] = reporting_interval_seconds * 10

RECURSIVE SumOver(_, _)
\* the sum of the counts f holds for the keys in S
SumOver(f, S) ==
  IF S = {} THEN 0
  ELSE LET k == CHOOSE k \in S : TRUE IN f[k] + SumOver(f, S \ {k})

\* C16 (histogram completeness): no step of detailed_status() changes the
\* table or the queue status or raises, and the result it returns has exactly
\* one count for every chain-status value, the counts summing to the reported
\* total number of chains.
C16_HistogramCompleteness ==
  [][/\ (DetailedStatusCall \/ DetailedStatusCount \/ DetailedStatusReturn)
          => /\ table' = table
             /\ status' = status
             /\ status_call'.pc # "raised"
     /\ DetailedStatusReturn
          => /\ DOMAIN status_call'.chain_status = TaskStatusCodes
             /\ SumOver(status_call'.chain_status, TaskStatusCodes)
                  = status_call'.total_chains_in_queue]_vars

====
